---- MODULE Spec2Model ----
(***************************************************************************)
(* A model of job_monitor.py: one JobBoardMonitor process per run, the     *)
(* gist that outlives the runs, and the sites the run reads.               *)
(*                                                                         *)
(* Time is counted in whole days.  A text is a sequence of words; a key is *)
(* the string the code builds.  md5 is modelled as an injective function   *)
(* of its argument (the string "md5:" followed by the argument).           *)
(***************************************************************************)
EXTENDS Integers, Sequences, FiniteSets, TLC

(***************************************************************************)
(* The state                                                               *)
(***************************************************************************)
VARIABLES
    gist_token,     \* whether GIST_TOKEN is set
    gist_history,   \* job_history.json in the gist
    gist_sent,      \* sent_jobs.json in the gist
    now,            \* the day
    web,            \* what the sites serve, the same in every run
    pc,             \* where the process is: idle (no process), collect, notify,
                    \* save, done (run() has returned)
    idx,            \* the position of check_all_boards in job_boards
    job_history,    \* self.job_history
    sent_jobs,      \* self.sent_jobs
    new_jobs,       \* self.new_jobs
    mail,           \* what became of the email of this run
    outbox,         \* the messages handed to the SMTP server in this run
    attempts,       \* how many times this run went to the SMTP server
    errors,         \* what this run logged: <<company, function>> for an
                    \* exception caught in a function for a company, and
                    \* <<level, "save_job_history">> for the messages of the save
    calls,          \* the adapters called for each company in this run, with
                    \* the number of jobs each returned
    loaded,         \* job_history and sent_jobs as the constructor loaded them,
                    \* and how the gist answered the two loads
    saved,          \* whether save_job_history wrote the gist in this run
    prev,           \* the previous run: its email, the keys of its new_jobs
    once_sent,      \* the <<company, key>> that were in sent_jobs when a run
                    \* wrote it to the gist
    faults,         \* the number of failures outside the sites so far
    probe           \* the calls of extract_job_id and is_junk_text made one at
                    \* a time, with their arguments and what they returned

(***************************************************************************)
(* Bounds of the model                                                     *)
(***************************************************************************)
\* postings a rendered page site lists in one run
MaxWindow == 3
\* elements a rendered site shows per page
PerPage == 2
\* jobs the Greenhouse API lists in one run
MaxApiJobs == 2
\* the clock stops advancing at this day
MaxNow == 7

\* failures outside the sites (gist requests, the loop body, the SMTP server)
\* in one behaviour
MaxFaults == 2
\* elements scraped one at a time in one behaviour
MaxProbes == 2
\* sent_jobs[company][-200:] keeps 200 keys; the model keeps SentKeep, so that
\* the eviction the slice performs is reached with the few keys the sites list
SentKeep == 2
\* the freshness window of the specification, in days (48 hours); the source
\* has no such constant
FreshDays == 2

(***************************************************************************)
(* Program constants                                                       *)
(***************************************************************************)
\* timedelta(days=7) in clean_old_jobs
RetentionDays == 7
\* max_pages in scrape_job_board
max_pages == 5
\* job_text.strip()[:100] and clean_text.strip()[:100]
TitleChars == 100

\* the monitored sources, in the order of the job_boards dict (three of the
\* eighteen: one plain source, one Greenhouse source, one plain source after it)
job_boards == <<"Google", "Intrinsic", "Waymo">>

Companies == {job_boards[i] : i \in 1..Len(job_boards)}

\* the companies with a Greenhouse board token
greenhouse_boards == {"Intrinsic"}

\* config['url'] of a company
ConfigUrl(company) == "careers:" \o company

\* f'https://boards.greenhouse.io/{board_token}'
BoardUrl(company) == "greenhouse:" \o company

(***************************************************************************)
(* Texts                                                                   *)
(***************************************************************************)
Range(seq) == {seq[i] : i \in 1..Len(seq)}

RECURSIVE Join(_)
\* the string of a text: its words separated by single spaces
Join(t) ==
    IF t = <<>> THEN ""
    ELSE IF Len(t) = 1 THEN t[1]
    ELSE t[1] \o " " \o Join(Tail(t))

\* len(text)
CharLen(t) == Len(Join(t))

RECURSIVE TakeChars(_, _)
\* text[:n], cut at a word boundary
TakeChars(t, n) ==
    IF t = <<>> \/ Len(t[1]) > n THEN <<>>
    ELSE <<t[1]>> \o TakeChars(Tail(t), n - Len(t[1]) - 1)

\* words whose lower case contains one of the junk_patterns
JunkWords == {"Cookie", "Privacy", "Engineering", "Global", "Safety"}

\* words whose lower case is in the single-word list of is_junk_text
GenericWords == {"Engineering", "Sales", "Marketing", "Design", "Global"}

\* words whose lower case contains one of the job_keywords
JobKeywordWords == {"Product", "Program", "Project", "Manager", "Engineer",
                    "Developer", "Analyst", "Designer", "Scientist"}

\* a filter that also rejects what comes after the first posting of the batch
JunkInBatch(text) ==
    IF text = <<>> \/ CharLen(text) < 5 THEN TRUE
    ELSE IF \E i \in 1..Len(text) : text[i] \in JunkWords THEN TRUE
    ELSE IF Len(text) = 1 /\ text[1] \in GenericWords THEN TRUE
    ELSE IF CharLen(text) < 20
            /\ ~ \E i \in 1..Len(text) : text[i] \in JobKeywordWords THEN TRUE
    ELSE new_jobs # <<>>

\* is_junk_text
is_junk_text(text) ==
    IF text = <<>> \/ CharLen(text) < 5 THEN TRUE
    ELSE IF \E i \in 1..Len(text) : text[i] \in JunkWords THEN TRUE
    ELSE IF Len(text) = 1 /\ text[1] \in GenericWords THEN TRUE
    ELSE IF CharLen(text) < 20
            /\ ~ \E i \in 1..Len(text) : text[i] \in JobKeywordWords THEN TRUE
    ELSE FALSE

\* words made of digits only
DigitWords == {"12345", "777"}

\* words of the form '#' followed by five or more digits, with the digits
HashIdWords == {"#12345"}

HashDigits(w) == IF w = "#12345" THEN "12345" ELSE ""

\* words that are a \w+ : letters, digits and underscores only
WordChars == DigitWords \cup {"Senior", "Product", "Manager", "Program", "Data",
                              "Scientist", "Technical", "Software", "Engineer",
                              "Cookie", "Settings", "Posted", "gh_101"}

\* the positions where the words of text match a pattern of job_id_patterns,
\* and the identifier each pattern captures there
IdAt(text, p, i) ==
    CASE p = 1 -> IF i + 2 <= Len(text) /\ text[i] \in {"Job", "JOB", "job"}
                     /\ text[i+1] \in {"ID:", "Id:", "id:"}
                     /\ text[i+2] \in DigitWords
                  THEN text[i+2] ELSE ""
      [] p = 2 -> IF i + 1 <= Len(text)
                     /\ text[i] \in {"job_id:", "job-id:", "jobid:", "Job_ID:", "JobID:"}
                     /\ text[i+1] \in WordChars
                  THEN text[i+1] ELSE ""
      [] p = 3 -> IF text[i] \in HashIdWords THEN HashDigits(text[i]) ELSE ""
      [] p = 4 -> IF i + 1 <= Len(text) /\ text[i] \in {"ID:", "Id:", "id:"}
                     /\ text[i+1] \in WordChars
                  THEN text[i+1] ELSE ""

\* re.search(pattern p, job_text): the leftmost match, "" when there is none
PatternMatch(text, p) ==
    LET hits == {i \in 1..Len(text) : IdAt(text, p, i) # ""}
    IN  IF hits = {} THEN ""
        ELSE IdAt(text, p, CHOOSE i \in hits : \A j \in hits : i <= j)

\* words at which the two re.sub calls and the three splits cut the title
CutWords == {"Today", "Yesterday", "2 days ago", "Location", "Locations",
             "Posted", "Updated", "|", "\n"}

RECURSIVE BeforeCut(_)
\* the words before the first cut
BeforeCut(t) ==
    IF t = <<>> \/ t[1] \in CutWords THEN <<>>
    ELSE <<t[1]>> \o BeforeCut(Tail(t))

\* hashlib.md5(s.encode()).hexdigest()
md5(s) == "md5:" \o s

\* a key that numbers the posting by the entries job_history holds for the
\* company
ExtractCounting(job_text, company) ==
    md5(company \o "_" \o Join(TakeChars(BeforeCut(job_text), TitleChars))
        \o (IF company \in DOMAIN job_history THEN "_1" ELSE "_0"))

\* extract_job_id
extract_job_id(job_text, company) ==
    LET first == IF PatternMatch(job_text, 1) # "" THEN 1
                 ELSE IF PatternMatch(job_text, 2) # "" THEN 2
                 ELSE IF PatternMatch(job_text, 3) # "" THEN 3
                 ELSE IF PatternMatch(job_text, 4) # "" THEN 4
                 ELSE 0
        clean_text == TakeChars(BeforeCut(job_text), TitleChars)
    IN  IF first # 0 THEN company \o "_" \o PatternMatch(job_text, first)
        ELSE md5(company \o "_" \o Join(clean_text))

\* job_text.strip()[:100]
JobTitle(job_text) == Join(TakeChars(job_text, TitleChars))

(***************************************************************************)
(* The sites                                                               *)
(***************************************************************************)
\* department_ids[:10]
DeptLimit == 10

\* the postings a rendered careers page lists over time, newest last; a run
\* sees a window of them
PageStream(company) ==
    CASE company = "Google" ->
            << <<"Senior", "Product", "Manager">>,
               <<"Program", "Manager", "#12345">>,
               <<"Data", "Scientist">>,
               <<"Cookie", "Settings">>,
               <<"Senior", "Product", "Manager", "Posted", "2 days ago">> >>
      [] company = "Intrinsic" ->
            << <<"Product", "Manager">> >>
      [] OTHER ->
            << <<"Product", "Manager">>, <<"Program", "Manager">> >>

\* the jobs the Greenhouse board of a company lists over time: id, title,
\* location name ("null": the job has no location object) and the day the job
\* was published
GreenhouseStream(company) ==
    << [id |-> "101", title |-> <<"Product", "Manager">>,
        location |-> "Remote", posted_at |-> 0],
       [id |-> "102", title |-> <<"Technical", "Program", "Manager">>,
        location |-> "null", posted_at |-> 0],
       [id |-> "103", title |-> <<"Senior", "Program", "Manager">>,
        location |-> "New York", posted_at |-> 0],
       [id |-> "104", title |-> <<"Project", "Manager">>,
        location |-> "London", posted_at |-> 0] >>

\* a window of a stream: its first position and its length
Windows(stream, max) ==
    {w \in [from : 1..Len(stream) + 1, len : 0..max] : w.from + w.len - 1 <= Len(stream)}

Window(stream, w) == SubSeq(stream, w.from, w.from + w.len - 1)

Whole(stream) == [from |-> 1, len |-> Len(stream)]

RECURSIVE Paginate(_, _)
\* the listing as the site serves it: PerPage elements a page, a next control
\* on every page but the last; the elements of the first page match the
\* selector of index sel, those of the later pages the first selector
Paginate(elems, sel) ==
    LET here == SubSeq(elems, 1, IF Len(elems) < PerPage THEN Len(elems) ELSE PerPage)
        rest == SubSeq(elems, Len(here) + 1, Len(elems))
        page == [matches |-> [s \in 1..sel |-> IF s = sel THEN here ELSE <<>>],
                 next |-> rest # <<>>]
    IN  IF rest = <<>> THEN <<page>> ELSE <<page>> \o Paginate(rest, 1)

\* what a site serves in a run is described by: nav, whether the navigation
\* to the careers page succeeds; page, the window of the page stream the
\* careers page lists; mode, how the Greenhouse API answers ("none": the
\* company has no board, "down": the request raises, "error": a non-200
\* answer, "ok"); api, the window of the job stream the API lists
PageViews(company) ==
    IF company = "Intrinsic"
    THEN {[nav |-> TRUE, page |-> Whole(PageStream(company))],
          [nav |-> FALSE, page |-> [from |-> 1, len |-> 0]]}
    ELSE {[nav |-> FALSE, page |-> [from |-> 1, len |-> 0]]}
         \cup {[nav |-> TRUE, page |-> w] : w \in Windows(PageStream(company), MaxWindow)}

ApiViews(company) ==
    IF company \notin greenhouse_boards
    THEN {[mode |-> "none", api |-> [from |-> 1, len |-> 0]]}
    ELSE {[mode |-> m, api |-> [from |-> 1, len |-> 0]] : m \in {"down", "error"}}
         \cup {[mode |-> "ok", api |-> w] :
                  w \in Windows(GreenhouseStream(company), MaxApiJobs)}

Views(company) ==
    {[nav |-> p.nav, page |-> p.page, mode |-> a.mode, api |-> a.api] :
        p \in PageViews(company), a \in ApiViews(company)}

\* the view of a company the model keeps fixed while another company varies
Quiet(company) ==
    [nav |-> TRUE, page |-> [from |-> 1, len |-> 1],
     mode |-> IF company \in greenhouse_boards THEN "error" ELSE "none",
     api |-> [from |-> 1, len |-> 0]]

\* what the sites serve: one company shows any of its views, the others
\* their quiet view
Webs ==
    UNION {{[c \in Companies |-> IF c = r THEN v ELSE Quiet(c)] : v \in Views(r)} :
              r \in Companies}

\* the pages a view serves: none when the navigation raises; the elements of
\* the first page of the first company match its second selector, all others
\* the first selector of their company
PagesOf(company, view) ==
    IF ~ view.nav THEN <<>>
    ELSE Paginate(Window(PageStream(company), view.page),
                  IF company = job_boards[1] THEN 2 ELSE 1)

\* the answer of the API in a view: the jobs of the main list, and the
\* departments of the board, one more than the function queries: the first
\* lists the first and the third job of the stream, the others list none
ApiOf(company, view) ==
    [mode |-> view.mode,
     jobs |-> Window(GreenhouseStream(company), view.api),
     depts |-> IF view.mode = "ok"
               THEN [d \in 1..DeptLimit + 1 |->
                        IF d = 1
                        THEN <<GreenhouseStream(company)[1], GreenhouseStream(company)[3]>>
                        ELSE <<>>]
               ELSE <<>>]

\* the content of every view, computed once
SiteTable ==
    [c \in Companies |->
        [v \in Views(c) \cup {Quiet(c)} |->
            [pages |-> PagesOf(c, v), api |-> ApiOf(c, v)]]]

\* the texts of the page streams, and their junk flag, key and title,
\* computed once
Texts == UNION {Range(PageStream(c)) : c \in Companies}

Junk == [t \in Texts |-> is_junk_text(t)]

Chars == [t \in Texts |-> CharLen(t)]

Key == [c \in Companies |-> [t \in Texts |-> extract_job_id(t, c)]]

Title == [t \in Texts |-> JobTitle(t)]

(***************************************************************************)
(* The two documents: job_history and sent_jobs                            *)
(*                                                                         *)
(* job_history maps a company to a dict of job_id -> {title, first_seen}   *)
(* (fmt "dict") or, in documents written by an earlier version, to a list  *)
(* of job ids (fmt "list").  sent_jobs maps a company to a list of keys.   *)
(* A company that is no key of the Python dict is outside the DOMAIN.      *)
(***************************************************************************)
Put(f, k, v) == [x \in DOMAIN f \cup {k} |-> IF x = k THEN v ELSE f[x]]

EmptyDoc == <<>>

DictOf(d) == [fmt |-> "dict", dict |-> d, list |-> <<>>]

ListOf(l) == [fmt |-> "list", dict |-> <<>>, list |-> l]

\* job_id in self.job_history[company]
InHistory(history, company, job_id) ==
    /\ company \in DOMAIN history
    /\ IF history[company].fmt = "list"
       THEN job_id \in Range(history[company].list)
       ELSE job_id \in DOMAIN history[company].dict

\* the keys job_history holds for a company
HistoryKeys(history, company) ==
    IF company \notin DOMAIN history THEN {}
    ELSE IF history[company].fmt = "list" THEN Range(history[company].list)
    ELSE DOMAIN history[company].dict

\* the keys sent_jobs holds for a company
SentKeys(sent, company) ==
    IF company \in DOMAIN sent THEN Range(sent[company]) ELSE {}

\* jobs[-100:] of the legacy format
LegacyKeep == 100

FirstOf(seq, n) == IF Len(seq) <= n THEN seq ELSE SubSeq(seq, 1, n)

LastOf(seq, n) == IF Len(seq) <= n THEN seq ELSE SubSeq(seq, Len(seq) - n + 1, Len(seq))

\* clean_old_jobs: week_ago is now - 7 days; an entry stays when its
\* first_seen is later than week_ago
clean_old_jobs(job_data, today) ==
    [company \in DOMAIN job_data |->
        IF job_data[company].fmt = "list"
        THEN ListOf(LastOf(job_data[company].list, LegacyKeep))
        ELSE LET jobs == job_data[company].dict
                 kept == {job_id \in DOMAIN jobs :
                             jobs[job_id].first_seen > today - RetentionDays}
             IN  DictOf([job_id \in kept |-> jobs[job_id]])]

\* is_truly_new_job
is_truly_new_job(sent, job_id, company) ==
    ~ (company \in DOMAIN sent /\ job_id \in Range(sent[company]))

\* the block without its guard: the entry is stored at every sighting
RecordOverwriting(history, company, job_id, title, today) ==
    LET h1 == IF company \in DOMAIN history THEN history
              ELSE Put(history, company, DictOf(<<>>))
    IN  IF h1[company].fmt = "list" THEN [raised |-> TRUE, history |-> h1]
        ELSE [raised |-> FALSE,
              history |-> [h1 EXCEPT ![company].dict =
                              Put(@, job_id, [title |-> title, first_seen |-> today])]]

\* the first sighting, as the three copies of the block in the adapters record
\* it: the company gets an empty dict when it has none, and the job an entry
\* when it has none.  Storing under a string key raises on a legacy list.
RecordFirstSeen(history, company, job_id, title, today) ==
    LET h1 == IF company \in DOMAIN history THEN history
              ELSE Put(history, company, DictOf(<<>>))
    IN  IF InHistory(h1, company, job_id) THEN [raised |-> FALSE, history |-> h1]
        ELSE IF h1[company].fmt = "list" THEN [raised |-> TRUE, history |-> h1]
        ELSE [raised |-> FALSE,
              history |-> [h1 EXCEPT ![company].dict =
                              Put(@, job_id, [title |-> title, first_seen |-> today])]]

\* the dict appended to new_jobs.  job_id is no key of the code's dict: it is
\* kept beside the posting so that the properties can name the posting's key.
NewJob(company, job_id, title, location, url, today) ==
    [company |-> company, job_title |-> title, location |-> location,
     url |-> url, timestamp |-> today, job_id |-> job_id]

(***************************************************************************)
(* scrape_job_board                                                        *)
(*                                                                         *)
(* The adapters work on acc: the jobs list they return, and job_history    *)
(* and new_jobs, which they change in place.                               *)
(***************************************************************************)
\* an end of the body that appends to new_jobs whether or not the entry was
\* stored
ElementSeenUnrecorded(company, acc, rec, job_id, job_title, sent, today) ==
    IF is_truly_new_job(sent, job_id, company)
    THEN [acc EXCEPT !.job_history = rec.history,
                     !.new_jobs = Append(@, NewJob(company, job_id, job_title, "",
                                                   ConfigUrl(company), today))]
    ELSE [acc EXCEPT !.job_history = rec.history]

\* the end of the body: rec is what the first-seen block did.  What the
\* block raises is caught by the except of the element, after jobs.append
ElementSeen(company, acc, rec, job_id, job_title, sent, today) ==
    IF ~ rec.raised /\ is_truly_new_job(sent, job_id, company)
    THEN [acc EXCEPT !.job_history = rec.history,
                     !.new_jobs = Append(@, NewJob(company, job_id, job_title, "",
                                                   ConfigUrl(company), today))]
    ELSE [acc EXCEPT !.job_history = rec.history]

\* an element that passed the filters and is taken whether or not jobs has
\* its id
ElementJobAgain(company, acc, job_id, job_title, sent, today) ==
    ElementSeen(company, [acc EXCEPT !.jobs = Append(@, <<job_id, job_title>>)],
                RecordFirstSeen(acc.job_history, company, job_id, job_title, today),
                job_id, job_title, sent, today)

\* an element that passed the filters: skipped when jobs has its id
ElementJob(company, acc, job_id, job_title, sent, today) ==
    IF \E i \in 1..Len(acc.jobs) : acc.jobs[i][1] = job_id THEN acc
    ELSE ElementSeen(company, [acc EXCEPT !.jobs = Append(@, <<job_id, job_title>>)],
                     RecordFirstSeen(acc.job_history, company, job_id, job_title, today),
                     job_id, job_title, sent, today)

\* one element of the page: the body of the loop over elements
ScrapeElement(company, acc, job_text, sent, today) ==
    IF job_text = <<>> \/ Chars[job_text] <= 5 \/ Junk[job_text] THEN acc
    ELSE ElementJob(company, acc, Key[company][job_text], Title[job_text], sent, today)

RECURSIVE ScrapeElements(_, _, _, _, _)
ScrapeElements(company, acc, elements, sent, today) ==
    IF elements = <<>> THEN acc
    ELSE ScrapeElements(company, ScrapeElement(company, acc, Head(elements), sent, today),
                        Tail(elements), sent, today)

\* the index of the first selector that yields elements, 0 when none does
FirstSelector(page) ==
    LET hits == {s \in 1..Len(page.matches) : page.matches[s] # <<>>}
    IN  IF hits = {} THEN 0 ELSE CHOOSE s \in hits : \A t \in hits : s <= t

RECURSIVE PageLoop(_, _, _, _, _, _, _)
\* the end of an iteration: the next control is clicked below max_pages; the
\* loop ends when nothing was clicked and the page had no job element
PageTurn(company, pages, at, checked, page_jobs_found, acc, sent, today) ==
    IF checked < max_pages /\ pages[at].next
    THEN PageLoop(company, pages, at + 1, checked, acc, sent, today)
    ELSE IF page_jobs_found THEN PageLoop(company, pages, at, checked, acc, sent, today)
    ELSE acc

\* the selector is noted when the loop over its elements appended to jobs
Extracted(found, selector, acc) ==
    IF Len(acc.jobs) > found THEN [acc EXCEPT !.selectors = @ \cup {selector}] ELSE acc

\* the elements of the first selector that yields any are scraped
PageScrape(company, pages, at, checked, selector, acc, sent, today) ==
    PageTurn(company, pages, at, checked, selector # 0,
             IF selector # 0
             THEN Extracted(Len(acc.jobs), selector,
                            ScrapeElements(company, acc, pages[at].matches[selector],
                                           sent, today))
             ELSE acc,
             sent, today)

\* the while loop over pages: the browser shows pages[at]
PageLoop(company, pages, at, pages_checked, acc, sent, today) ==
    IF pages_checked >= max_pages THEN acc
    ELSE PageScrape(company, pages, at, pages_checked + 1, FirstSelector(pages[at]),
                    [acc EXCEPT !.pages = pages_checked + 1], sent, today)

\* scrape_job_board: no page at all is a navigation that raises, caught by
\* the except of the function, which returns the jobs found so far
scrape_job_board(company, pages, acc, sent, today) ==
    IF pages = <<>> THEN [acc EXCEPT !.errors = @ \cup {<<company, "scrape_job_board">>}]
    ELSE PageLoop(company, pages, 1, 0, acc, sent, today)

(***************************************************************************)
(* scrape_greenhouse_api                                                   *)
(***************************************************************************)
\* location names that contain one of the names the main loop accepts
MainLocations == {"United States", "USA", "New York", "San Francisco", "Remote",
                  "Seattle", "Mountain View"}

\* the department loop accepts the same names but 'Mountain View'
DeptLocations == MainLocations \ {"Mountain View"}

\* words whose lower case contains one of the title keywords of the API filter
TitleKeywordWords == {"Product", "Program", "Project", "Manager", "Technical"}

TitleKeyword(title) == \E i \in 1..Len(title) : title[i] \in TitleKeywordWords

\* the end of the block: rec is what the first-seen block did; what it
\* raises leaves the loop
GreenhouseSeen(company, acc, rec, unique_id, title, job, sent, today) ==
    IF rec.raised THEN [acc EXCEPT !.job_history = rec.history, !.raised = TRUE]
    ELSE IF is_truly_new_job(sent, unique_id, company)
    THEN [acc EXCEPT !.job_history = rec.history,
                     !.new_jobs = Append(@, NewJob(company, unique_id, title, job.location,
                                                   BoardUrl(company), today))]
    ELSE [acc EXCEPT !.job_history = rec.history]

GreenhouseJob(company, acc, unique_id, title, job, sent, today) ==
    GreenhouseSeen(company, [acc EXCEPT !.jobs = Append(@, <<unique_id, title>>)],
                   RecordFirstSeen(acc.job_history, company, unique_id, title, today),
                   unique_id, title, job, sent, today)

\* the block both loops run for a job that passed the filters
GreenhouseFound(company, acc, job, sent, today) ==
    GreenhouseJob(company, acc, company \o "_gh_" \o job.id, Join(job.title), job, sent, today)

RECURSIVE MainJobs(_, _, _, _, _)
\* the loop over the jobs of the main list; it stops where a statement raises
\* (a job without a location object, or a store into a legacy list)
MainJobs(company, acc, job_list, sent, today) ==
    IF job_list = <<>> \/ acc.raised THEN acc
    ELSE LET job == Head(job_list)
         IN  IF job.location = "null" THEN [acc EXCEPT !.raised = TRUE]
             ELSE IF job.location \in MainLocations /\ TitleKeyword(job.title)
             THEN MainJobs(company, GreenhouseFound(company, acc, job, sent, today),
                           Tail(job_list), sent, today)
             ELSE MainJobs(company, acc, Tail(job_list), sent, today)

RECURSIVE DeptJobs(_, _, _, _, _)
\* the loop over the jobs of one department
DeptJobs(company, acc, dept_jobs, sent, today) ==
    IF dept_jobs = <<>> \/ acc.raised THEN acc
    ELSE LET job == Head(dept_jobs)
             unique_id == company \o "_gh_" \o job.id
         IN  IF job.location = "null" THEN [acc EXCEPT !.raised = TRUE]
             ELSE IF \E i \in 1..Len(acc.jobs) : acc.jobs[i][1] = unique_id
             THEN DeptJobs(company, acc, Tail(dept_jobs), sent, today)
             ELSE IF job.location \in DeptLocations /\ TitleKeyword(job.title)
             THEN DeptJobs(company, GreenhouseFound(company, acc, job, sent, today),
                           Tail(dept_jobs), sent, today)
             ELSE DeptJobs(company, acc, Tail(dept_jobs), sent, today)

RECURSIVE Departments(_, _, _, _, _)
\* the loop over the departments: what a department raises is swallowed by
\* the bare except, and the loop goes on with the next department
Departments(company, acc, depts, sent, today) ==
    IF depts = <<>> THEN acc
    ELSE LET a1 == DeptJobs(company, acc, Head(depts), sent, today)
         IN  Departments(company, [a1 EXCEPT !.raised = FALSE, !.depts = @ + 1],
                         Tail(depts), sent, today)

\* the except of the function: it logs the exception and returns [] whatever
\* the function had found
ApiFailed(company, acc) ==
    [acc EXCEPT !.jobs = <<>>, !.raised = FALSE,
                !.errors = @ \cup {<<company, "scrape_greenhouse_api">>}]

\* a loop over all the departments of the board
ApiAllDepartments(company, api, acc, sent, today) ==
    IF acc.raised THEN ApiFailed(company, acc)
    ELSE Departments(company, acc, api.depts, sent, today)

\* after the loop over the main list
ApiDepartments(company, api, acc, sent, today) ==
    IF acc.raised THEN ApiFailed(company, acc)
    ELSE Departments(company, acc, FirstOf(api.depts, DeptLimit), sent, today)

ApiRequest(company, api, acc, sent, today) ==
    IF api.mode = "down" THEN ApiFailed(company, acc)
    ELSE IF api.mode = "error" THEN acc
    ELSE ApiDepartments(company, api, MainJobs(company, acc, api.jobs, sent, today), sent, today)

\* scrape_greenhouse_api: what the function raises outside the department
\* loop is caught by its except
scrape_greenhouse_api(company, api, acc, sent, today) ==
    ApiRequest(company, api, [acc EXCEPT !.raised = FALSE], sent, today)

(***************************************************************************)
(* The runs                                                                *)
(***************************************************************************)
vars == <<gist_token, gist_history, gist_sent, now, web, pc, idx, job_history,
          sent_jobs, new_jobs, mail, outbox, attempts, errors, calls, loaded, saved,
          prev, once_sent, faults, probe>>

\* the days that can pass between two runs
Delays == {0, 6, 7}

\* a document an earlier version of the program left in the gist
LegacyHistory ==
    [c \in {"Waymo"} |-> ListOf(<<md5("Waymo_Product Manager")>>)]

NoCalls == [c \in Companies |-> <<>>]

NoRun == [mail |-> "none", novel |-> {}, saved |-> FALSE]

\* the <<company, key>> of the postings in new_jobs
NovelKeys(jobs) == {<<jobs[i].company, jobs[i].job_id>> : i \in 1..Len(jobs)}

\* no call made one at a time
NoProbe == [ids |-> {}, junk |-> {}, api |-> {}, elements |-> 0]

\* nothing loaded: no process is running
NotLoaded == [job_history |-> EmptyDoc, sent_jobs |-> EmptyDoc, answers |-> <<"none", "none">>]

Memory0 ==
    /\ pc = "idle"
    /\ idx = 0
    /\ job_history = EmptyDoc
    /\ sent_jobs = EmptyDoc
    /\ new_jobs = <<>>
    /\ mail = "none"
    /\ outbox = <<>>
    /\ attempts = 0
    /\ errors = {}
    /\ calls = NoCalls
    /\ loaded = NotLoaded
    /\ saved = FALSE

Init ==
    /\ gist_token \in BOOLEAN
    /\ web \in Webs
    /\ gist_history \in {EmptyDoc} \cup
           (IF gist_token /\ web["Waymo"] # Quiet("Waymo") THEN {LegacyHistory} ELSE {})
    /\ gist_sent = EmptyDoc
    /\ now = 0
    /\ Memory0
    /\ prev = NoRun
    /\ once_sent = {}
    /\ faults = 0
    /\ probe = NoProbe

\* the failures outside the sites (a request to the gist, a statement of the
\* loop of check_all_boards, the SMTP server): a behaviour has at most
\* MaxFaults of them
Failing(failures) ==
    LET n == Cardinality({i \in 1..Len(failures) : failures[i]})
    IN  /\ faults + n <= MaxFaults
        /\ faults' = faults + n

\* how the gist answers a request: without a token no request is made
GistAnswers == IF gist_token THEN {"ok", "error"} ELSE {"none"}

(***************************************************************************)
(* The constructor: load_job_history and load_sent_jobs                    *)
(***************************************************************************)
\* a load whose except clause hands back what the gist holds
LoadUnguarded(token, answer, day) ==
    IF token THEN clean_old_jobs(gist_history, day) ELSE EmptyDoc

\* load_job_history: {} without a token and when the requests raise
load_job_history(token, answer, day) ==
    IF token /\ answer = "ok" THEN clean_old_jobs(gist_history, day) ELSE EmptyDoc

\* load_sent_jobs: {} without a token and when the requests raise
load_sent_jobs(token, answer) ==
    IF token /\ answer = "ok" THEN gist_sent ELSE EmptyDoc

\* a process starts d days after the last one: __init__
Construct(d, history_answer, sent_answer) ==
    /\ pc = "idle"
    /\ now + d <= MaxNow
    /\ Failing(<<history_answer = "error", sent_answer = "error">>)
    /\ now' = now + d
    /\ job_history' = load_job_history(gist_token, history_answer, now')
    /\ sent_jobs' = load_sent_jobs(gist_token, sent_answer)
    /\ loaded' = [job_history |-> job_history', sent_jobs |-> sent_jobs',
                   answers |-> <<history_answer, sent_answer>>]
    /\ new_jobs' = <<>>
    /\ pc' = "collect"
    /\ idx' = 1
    /\ UNCHANGED <<gist_token, gist_history, gist_sent, web, mail, outbox, attempts,
                   errors, calls, saved, prev, once_sent, probe>>

Start ==
    \E d \in Delays, history_answer \in GistAnswers, sent_answer \in GistAnswers :
          Construct(d, history_answer, sent_answer)

(***************************************************************************)
(* check_all_boards, one company a step                                    *)
(***************************************************************************)
RECURSIVE AppendNew(_, _)
\* for job_id, _ in jobs: append job_id unless the list has it
AppendNew(list, jobs) ==
    IF jobs = <<>> THEN list
    ELSE AppendNew(IF Head(jobs)[1] \in Range(list) THEN list
                   ELSE Append(list, Head(jobs)[1]), Tail(jobs))

\* an update whose slice keeps the first keys of the list
UpdateSentOldest(sent, company, jobs) ==
    LET s1 == IF company \in DOMAIN sent THEN sent ELSE Put(sent, company, <<>>)
    IN  [s1 EXCEPT ![company] = FirstOf(AppendNew(@, jobs), SentKeep)]

\* the update of sent_jobs for a company, and the slice that keeps the last keys
UpdateSent(sent, company, jobs) ==
    LET s1 == IF company \in DOMAIN sent THEN sent ELSE Put(sent, company, <<>>)
    IN  [s1 EXCEPT ![company] = LastOf(AppendNew(@, jobs), SentKeep)]

\* the job ids of a list of (job_id, title) pairs
JobIds(jobs) == [i \in 1..Len(jobs) |-> jobs[i][1]]

\* what an adapter returned, the call noted in the trail: the adapter, the
\* number of jobs it returned, their ids, the selectors they came from, the
\* iterations of the loop over pages and the departments queried
Returned(got, adapter) ==
    [got EXCEPT !.trail = Append(@, <<adapter, Len(got.jobs), JobIds(got.jobs),
                                      got.selectors, got.pages, got.depts>>),
                !.pages = 0, !.depts = 0]

\* if not jobs: jobs = self.scrape_job_board(company, config)
Fallback(company, site, api, sent, day) ==
    IF api.jobs = <<>>
    THEN Returned(scrape_job_board(company, site.pages, api, sent, day), "scrape_job_board")
    ELSE api

\* a loop that calls scrape_job_board after the API whatever the API returned
CollectBoth(company, site, acc, sent, day) ==
    Returned(scrape_job_board(company, site.pages,
                              IF company \in greenhouse_boards
                              THEN Returned(scrape_greenhouse_api(company, site.api, acc,
                                                                  sent, day),
                                            "scrape_greenhouse_api")
                              ELSE acc,
                              sent, day),
             "scrape_job_board")

\* the adapters check_all_boards calls for a company: the Greenhouse API
\* first where there is a board token, and scrape_job_board when there is no
\* token or the API returned no job
Collect(company, site, acc, sent, day) ==
    IF company \in greenhouse_boards
    THEN Fallback(company, site,
                  Returned(scrape_greenhouse_api(company, site.api, acc, sent, day),
                           "scrape_greenhouse_api"),
                  sent, day)
    ELSE Returned(scrape_job_board(company, site.pages, acc, sent, day),
                  "scrape_job_board")

\* a loop without the try: the exception leaves check_all_boards and run()
BodyEscapes(company, got) ==
    [pc |-> "crashed", errors |-> got.errors]

\* where an exception raised in the body of the loop goes: the except of
\* check_all_boards logs it and the loop continues with the next company
BodyRaised(company, got) ==
    [pc |-> "collect", errors |-> got.errors \cup {<<company, "check_all_boards">>}]

\* the loop goes on from `then`, to the email step after the last company
Continue(then) ==
    /\ errors' = then.errors
    /\ pc' = IF then.pc = "collect" /\ idx = Len(job_boards) THEN "notify" ELSE then.pc
    /\ idx' = idx + 1

\* the body of the loop once the adapters have returned got
CheckBoardBody(company, got, body_raises) ==
    /\ job_history' = got.job_history
    /\ new_jobs' = got.new_jobs
    /\ calls' = [calls EXCEPT ![company] = got.trail]
    /\ IF body_raises
       THEN /\ sent_jobs' = sent_jobs
            /\ Continue(BodyRaised(company, got))
       ELSE /\ sent_jobs' = UpdateSent(sent_jobs, company, got.jobs)
            /\ Continue([pc |-> "collect", errors |-> got.errors])

\* the body of the loop for job_boards[idx], the site serving `site`; body_raises:
\* a statement of the body raises after the adapters have returned
CheckBoardWith(site, body_raises) ==
    /\ pc = "collect"
    /\ CheckBoardBody(job_boards[idx],
                      Collect(job_boards[idx], site,
                              [jobs |-> <<>>, job_history |-> job_history,
                               new_jobs |-> new_jobs, raised |-> FALSE,
                               errors |-> errors, trail |-> <<>>, selectors |-> {},
                               pages |-> 0, depts |-> 0],
                              sent_jobs, now),
                      body_raises)
    /\ UNCHANGED <<gist_token, gist_history, gist_sent, now, web, mail, outbox,
                   attempts, loaded, saved, prev, once_sent, probe>>

CheckBoard ==
    /\ pc = "collect"
    /\ \E body_raises \in BOOLEAN :
          /\ Failing(<<body_raises>>)
          /\ CheckBoardWith(SiteTable[job_boards[idx]][web[job_boards[idx]]], body_raises)

(***************************************************************************)
(* send_email_notification                                                 *)
(***************************************************************************)
\* jobs[:10] in the rendering of a company
ShowMax == 10

\* a message built from new_jobs as it is
KeepAll(jobs, seen) == jobs

RECURSIVE UniqueJobs(_, _)
\* the loop that drops the later jobs with the same f"{company}_{job_title}"
UniqueJobs(jobs, seen) ==
    IF jobs = <<>> THEN <<>>
    ELSE LET key == Head(jobs).company \o "_" \o Head(jobs).job_title
         IN  IF key \in seen THEN UniqueJobs(Tail(jobs), seen)
             ELSE <<Head(jobs)>> \o UniqueJobs(Tail(jobs), seen \cup {key})

RECURSIVE OfCompany(_, _)
\* jobs_by_company[company]
OfCompany(jobs, company) ==
    IF jobs = <<>> THEN <<>>
    ELSE IF Head(jobs).company = company
         THEN <<Head(jobs)>> \o OfCompany(Tail(jobs), company)
         ELSE OfCompany(Tail(jobs), company)

\* the message: for every company the titles of the job-title lines, and the
\* number of jobs the heading announces
Render(unique_jobs) ==
    [company \in Companies |->
        LET jobs == OfCompany(unique_jobs, company)
            shown == FirstOf(jobs, ShowMax)
        IN  [count |-> Len(jobs),
             titles |-> [i \in 1..Len(shown) |-> shown[i].job_title]]]

\* a run that goes to the SMTP server whatever new_jobs holds
AlwaysSend(jobs) == TRUE

\* if self.new_jobs: in run(), and again at the top of
\* send_email_notification
HasNew(jobs) == jobs # <<>>

\* a send that is tried again when it has failed
SendRetries(outcome) ==
    [pc |-> IF outcome = "failed" THEN "notify" ELSE "save", mail |-> outcome]

\* a send whose exception leaves run(): the process ends without the save
SendEscapes(outcome) ==
    [pc |-> IF outcome = "failed" THEN "crashed" ELSE "save", mail |-> outcome]

\* what run() goes on with after send_email_notification: the except of the
\* function logs what the SMTP calls raise, and the function returns
AfterSend(outcome) ==
    [pc |-> "save", mail |-> outcome]

\* run(): the email, when new_jobs is not empty.  outcome: the SMTP server
\* takes the message ("delivered"), or connecting, logging in or sending raises
Notify ==
    /\ pc = "notify"
    /\ IF ~ HasNew(new_jobs)
       THEN /\ mail' = "skipped"
            /\ pc' = "save"
            /\ UNCHANGED <<outbox, attempts, faults>>
       ELSE \E outcome \in {"delivered", "failed"} :
               /\ Failing(<<outcome = "failed">>)
               /\ attempts' = attempts + 1
               /\ mail' = AfterSend(outcome).mail
               /\ pc' = AfterSend(outcome).pc
               /\ outbox' = IF outcome = "delivered"
                            THEN Append(outbox, Render(UniqueJobs(new_jobs, {})))
                            ELSE outbox
    /\ UNCHANGED <<gist_token, gist_history, gist_sent, now, web, idx, job_history,
                   sent_jobs, new_jobs, errors, calls, loaded, saved, prev, once_sent, probe>>

(***************************************************************************)
(* save_job_history, and the end of the process                            *)
(***************************************************************************)
\* whether save_job_history patches the gist: it returns early without a
\* token, and writes nothing when the listing is refused or raises
Persists(token, answer) == token /\ answer = "ok"

\* the <<company, key>> of the keys in sent_jobs
SentPairs(sent) == UNION {{<<c, k>> : k \in Range(sent[c])} : c \in DOMAIN sent}

\* how the gist answers the requests of save_job_history: the listing is not
\* a 200, no gist of the listing holds job_history.json, the PATCH is
\* answered with a rejection, or a request raises
SaveAnswers ==
    IF gist_token THEN {"ok", "not200", "nogist", "rejected", "raises"} ELSE {"none"}

\* what save_job_history logs: a warning without a token, an error in its
\* except, and the success message after the PATCH, whatever its answer
SaveLogged(token, answer) ==
    IF ~ token THEN {<<"warning", "save_job_history">>}
    ELSE IF answer = "raises" THEN {<<"error", "save_job_history">>}
    ELSE IF answer \in {"ok", "rejected"} THEN {<<"info", "save_job_history">>}
    ELSE {}

\* save_job_history
Save ==
    /\ pc = "save"
    /\ \E answer \in SaveAnswers :
          /\ Failing(<<answer \notin {"ok", "none"}>>)
          /\ saved' = Persists(gist_token, answer)
          /\ errors' = errors \cup SaveLogged(gist_token, answer)
          /\ gist_history' = IF saved' THEN job_history ELSE gist_history
          /\ gist_sent' = IF saved' THEN sent_jobs ELSE gist_sent
          /\ once_sent' = IF saved' THEN once_sent \cup SentPairs(sent_jobs)
                          ELSE once_sent
    /\ pc' = "done"
    /\ UNCHANGED <<gist_token, now, web, idx, job_history, sent_jobs, new_jobs, mail,
                   outbox, attempts, calls, loaded, prev, probe>>

\* the process ends: what it held in memory is gone
Exit ==
    /\ pc = "done"
    /\ pc' = "idle"
    /\ idx' = 0
    /\ job_history' = EmptyDoc
    /\ sent_jobs' = EmptyDoc
    /\ new_jobs' = <<>>
    /\ mail' = "none"
    /\ outbox' = <<>>
    /\ attempts' = 0
    /\ errors' = {}
    /\ calls' = NoCalls
    /\ loaded' = NotLoaded
    /\ saved' = FALSE
    /\ prev' = [mail |-> mail, novel |-> NovelKeys(new_jobs), saved |-> saved]
    /\ UNCHANGED <<gist_token, gist_history, gist_sent, now, web, once_sent, faults, probe>>

Next == Start \/ CheckBoard \/ Notify \/ Save \/ Exit

\* any number of runs, every run against the same sites
Spec == Init /\ [][Next]_vars

\* the runs without a gist token, the process going on with the next
\* statement of run() as long as there is one: a run that has started is not
\* suspended for ever before the next company of check_all_boards, before
\* its email or before its save.  BoardChecked is the step of the loop of
\* check_all_boards seen from outside: among the steps of Next it is
\* CheckBoard, which can be taken in every state where pc is "collect".
InitLive == Init /\ ~ gist_token

BoardChecked == pc = "collect" /\ idx' = idx + 1

SpecLive ==
    /\ InitLive
    /\ [][Next]_vars
    /\ WF_idx(BoardChecked) /\ WF_vars(Notify) /\ WF_vars(Save)

(***************************************************************************)
(* The adapters one element at a time: the body of the loop over the       *)
(* elements of a page, and the body of the loop over the jobs of the API   *)
(***************************************************************************)
\* texts of elements: two titles, a title with an id, a long text without a
\* job keyword, a short one, a single generic word, a cookie banner, a short
\* word
ProbeTexts ==
    { <<"Senior", "Product", "Manager">>,
      <<"Product", "Manager">>,
      <<"Program", "Manager", "#12345">>,
      <<"Technical", "Account", "Director">>,
      <<"Account", "Lead">>,
      <<"Sales">>,
      <<"Cookie", "Settings">>,
      <<"Lead">> }

InitPure ==
    /\ gist_token = FALSE
    /\ gist_history = EmptyDoc
    /\ gist_sent = EmptyDoc
    /\ now = 0
    /\ web = [c \in Companies |-> Quiet(c)]
    /\ Memory0
    /\ prev = NoRun
    /\ once_sent = {}
    /\ faults = 0
    /\ probe = NoProbe

\* the call of is_junk_text on an element, with whether the batch had a posting
JunkCall(job_text) ==
    [text |-> job_text, junk |-> is_junk_text(job_text), batch |-> new_jobs # <<>>]

\* the call of extract_job_id, with whether job_history had the company
IdCall(job_text, company) ==
    [text |-> job_text, company |-> company,
     job_id |-> extract_job_id(job_text, company),
     known |-> company \in DOMAIN job_history]

\* job_history, new_jobs and sent_jobs after the element: acc is what the
\* body of the loop made of it
ProbeDone(company, acc) ==
    /\ job_history' = acc.job_history
    /\ new_jobs' = acc.new_jobs
    /\ sent_jobs' = UpdateSent(sent_jobs, company, acc.jobs)

\* the body of the loop over elements for one element, and the update of
\* sent_jobs that follows in check_all_boards
ProbeElement ==
    /\ pc = "idle"
    /\ probe.elements < MaxProbes
    /\ \E company \in Companies, job_text \in ProbeTexts :
          IF CharLen(job_text) <= 5 \/ JunkCall(job_text).junk
          THEN /\ probe' = [probe EXCEPT !.junk = @ \cup {JunkCall(job_text)},
                                         !.elements = @ + 1]
               /\ UNCHANGED <<job_history, new_jobs, sent_jobs>>
          ELSE /\ probe' = [ids |-> probe.ids \cup {IdCall(job_text, company)},
                            junk |-> probe.junk \cup {JunkCall(job_text)},
                            api |-> probe.api,
                            elements |-> probe.elements + 1]
               /\ ProbeDone(company,
                     ElementJob(company,
                                [jobs |-> <<>>, job_history |-> job_history,
                                 new_jobs |-> new_jobs],
                                IdCall(job_text, company).job_id, JobTitle(job_text),
                                sent_jobs, now))
    /\ UNCHANGED <<gist_token, gist_history, gist_sent, now, web, pc, idx, mail, outbox,
                   attempts, errors, calls, loaded, saved, prev, once_sent, faults>>

\* the jobs the API lists: those of the board, and one whose title holds
\* both a junk phrase of is_junk_text and a keyword of the API filter
ProbeJobs(company) ==
    Range(GreenhouseStream(company)) \cup
    {[id |-> "105", title |-> <<"Engineering", "Manager">>,
      location |-> "Remote", posted_at |-> 0]}

\* what the body of the loop over the main list made of a job that passed
\* its filters: the key it built and whether job_history holds the key
ApiCall(company, job, acc) ==
    [title |-> job.title, company |-> company, job_id |-> acc.jobs[1][1],
     recorded |-> InHistory(acc.job_history, company, acc.jobs[1][1])]

ProbeApiDone(company, job, acc) ==
    /\ probe' = [probe EXCEPT !.elements = @ + 1,
                              !.api = IF acc.jobs = <<>> THEN @
                                      ELSE @ \cup {ApiCall(company, job, acc)}]
    /\ ProbeDone(company, acc)

\* the body of the loop over the jobs of the main list for one job, and the
\* update of sent_jobs that follows in check_all_boards
ProbeApiJob ==
    /\ pc = "idle"
    /\ probe.elements < MaxProbes
    /\ \E company \in greenhouse_boards : \E job \in ProbeJobs(company) :
          ProbeApiDone(company, job,
                       MainJobs(company,
                                [jobs |-> <<>>, job_history |-> job_history,
                                 new_jobs |-> new_jobs, raised |-> FALSE],
                                <<job>>, sent_jobs, now))
    /\ UNCHANGED <<gist_token, gist_history, gist_sent, now, web, pc, idx, mail, outbox,
                   attempts, errors, calls, loaded, saved, prev, once_sent, faults>>

\* the process ends and another starts: new_jobs is empty again, and
\* job_history and sent_jobs are what the loads return, the documents of the
\* last run or {}
ProbeRestart ==
    /\ pc = "idle"
    /\ new_jobs' = <<>>
    /\ \E kept \in BOOLEAN :
          /\ job_history' = IF kept THEN job_history ELSE EmptyDoc
          /\ sent_jobs' = IF kept THEN sent_jobs ELSE EmptyDoc
    /\ UNCHANGED <<gist_token, gist_history, gist_sent, now, web, pc, idx, mail, outbox,
                   attempts, errors, calls, loaded, saved, prev, once_sent, faults, probe>>

NextPure == ProbeElement \/ ProbeApiJob \/ ProbeRestart

SpecPure == InitPure /\ [][NextPure]_vars

(***************************************************************************)
(* Properties                                                              *)
(***************************************************************************)
\* a process is between its constructor and its end
Running == pc \in {"collect", "notify", "save", "done"}

\* every key sent holds for a company is a key hist holds for it
Within(sent, hist) ==
    \A c \in DOMAIN sent : SentKeys(sent, c) \subseteq HistoryKeys(hist, c)

\* the run started from what the previous run saved: both loads returned
\* what the gist holds
FromSaved ==
    /\ prev.saved
    /\ loaded.job_history = clean_old_jobs(gist_history, now)
    /\ loaded.sent_jobs = gist_sent

\* the <<company, key, entry>> of the entries job_history holds
Entries(history) ==
    UNION {IF history[c].fmt = "list" THEN {}
           ELSE {<<c, k, history[c].dict[k]>> : k \in DOMAIN history[c].dict} :
           c \in DOMAIN history}

\* the day a posting was published, as far as the program can know it: the
\* posted_at of the catalog for a job of the API, else the first_seen of its
\* entry in job_history, else today
EffectiveTime(job) ==
    LET listed == {j \in Range(GreenhouseStream(job.company)) :
                      job.company \o "_gh_" \o j.id = job.job_id}
    IN  IF job.company \in greenhouse_boards /\ listed # {}
        THEN (CHOOSE j \in listed : TRUE).posted_at
        ELSE IF \E e \in Entries(job_history) : e[1] = job.company /\ e[2] = job.job_id
        THEN job_history[job.company].dict[job.job_id].first_seen
        ELSE now

\* C1: while no email of the run has been delivered, sent_jobs is what the
\* constructor loaded: collection adds no key to it
C1_SentOnlyAfterDelivery ==
    (Running /\ mail # "delivered") => sent_jobs = loaded.sent_jobs

\* C2: a run whose email failed saves sent_jobs as it loaded it, and the next
\* run, against the same sites, has every posting of the failed email in
\* new_jobs again
C2_FailedSendRetried ==
    /\ (pc = "done" /\ mail = "failed" /\ saved) => gist_sent = loaded.sent_jobs
    /\ (pc \in {"notify", "save"} /\ prev.mail = "failed") =>
          prev.novel \subseteq NovelKeys(new_jobs)

\* C3: a key that was in sent_jobs when a run saved it is the key of no
\* posting in the new_jobs of a later run
C3_NoDoubleNotification ==
    pc \in {"collect", "notify", "save"} => NovelKeys(new_jobs) \cap once_sent = {}

\* C4: a run that starts from what the previous run saved and meets the same
\* sites leaves job_history as it was saved, and has no new job when the
\* email of the previous run was delivered
C4_SecondRunIdempotent ==
    (pc \in {"notify", "save"} /\ FromSaved) =>
        /\ job_history = gist_history
        /\ prev.mail = "delivered" => new_jobs = <<>>

\* C5: after the loads and after the save, every key of sent_jobs for a
\* company is a key of job_history for that company
C5_SentWithinHistory ==
    /\ (pc = "collect" /\ idx = 1) => Within(sent_jobs, job_history)
    /\ (pc = "done" /\ saved) => Within(gist_sent, gist_history)

\* C6: no posting of new_jobs was published more than FreshDays days ago
C6_FreshOnly ==
    Running =>
        \A i \in 1..Len(new_jobs) : now - EffectiveTime(new_jobs[i]) <= FreshDays

\* C7: an entry job_history holds stays as it is while the adapters run,
\* whatever they rediscover, and the entries a constructor loads are entries
\* of the gist, unchanged
C7_FirstSeenImmutable ==
    [][/\ (pc = "collect" /\ pc' \in {"collect", "notify"}) =>
              Entries(job_history) \subseteq Entries(job_history')
       /\ (pc = "idle" /\ pc' = "collect") =>
              Entries(job_history') \subseteq Entries(gist_history)]_vars

\* C7 witness: six days after its first sighting an entry is met again by the
\* adapter, which returned the posting
C7_Rediscovered ==
    /\ pc = "notify"
    /\ now = 6
    /\ calls["Google"] # <<>>
    /\ calls["Google"][1][2] > 0
    /\ \E e \in Entries(loaded.job_history) :
          e[1] = "Google" /\ e[3].first_seen = 0 /\ e \in Entries(job_history)

\* C8: whatever is raised for a company, the process stays in the sequence of
\* run(): the companies after it are checked, and the email and the save follow
C8_FailureIsolated ==
    /\ pc \in {"idle", "collect", "notify", "save", "done"}
    /\ pc = "collect" => \A i \in 1..(idx - 1) : calls[job_boards[i]] # <<>>
    /\ pc \in {"notify", "save", "done"} => \A c \in Companies : calls[c] # <<>>

\* C8 witness: the body of the loop raised for the first company, and the run
\* checked the last company and reached its end
C8_RaisedAndCompleted ==
    /\ pc = "done"
    /\ <<job_boards[1], "check_all_boards">> \in errors
    /\ calls[job_boards[Len(job_boards)]] # <<>>

\* C9: for a company with a Greenhouse board scrape_job_board is called if and
\* only if scrape_greenhouse_api returned no job; for the other companies
\* scrape_job_board is called once and nothing else
C9_FallbackPolicy ==
    \A c \in Companies :
        calls[c] # <<>> =>
            IF c \in greenhouse_boards
            THEN /\ calls[c][1][1] = "scrape_greenhouse_api"
                 /\ \/ Len(calls[c]) = 1 /\ calls[c][1][2] > 0
                    \/ /\ Len(calls[c]) = 2
                       /\ calls[c][1][2] = 0
                       /\ calls[c][2][1] = "scrape_job_board"
            ELSE Len(calls[c]) = 1 /\ calls[c][1][1] = "scrape_job_board"

\* C9 witness: the API answered and returned no job, and the page was scraped
C9_FellBack ==
    /\ web["Intrinsic"].mode = "ok"
    /\ Len(calls["Intrinsic"]) = 2
    /\ calls["Intrinsic"][2][2] > 0
    /\ Len(calls["Google"]) = 1

\* C10: the email step starts when the last company has been checked, and the
\* save follows the email step whether the email was delivered, failed or
\* was not sent
C10_RunOrder ==
    [][/\ pc' = "notify" => (pc = "collect" /\ idx = Len(job_boards))
       /\ pc = "notify" => (pc' = "save" /\ mail' \in {"delivered", "failed", "skipped"})
       /\ pc' = "save" => pc = "notify"
       /\ pc = "save" => pc' = "done"]_vars

\* C10 witness: the email failed and the save was reached
C10_SavedAfterFailure ==
    pc = "done" /\ mail = "failed" /\ saved

\* C11: a run goes to the SMTP server at most once and hands it at most one
\* message; after a failed send the run has handed over none and goes on to
\* the save without a second try
C11_OneSendPerRun ==
    /\ attempts <= 1
    /\ Len(outbox) <= attempts
    /\ mail = "failed" => (attempts = 1 /\ outbox = <<>> /\ pc \in {"save", "done"})

\* C11 witness: the only send of the run failed and the run ended
C11_FailedOnce ==
    pc = "done" /\ mail = "failed" /\ attempts = 1 /\ new_jobs # <<>>

\* sent_jobs[company] before the step, and the ids the adapters returned to
\* check_all_boards in the step
SentBefore(company) == IF company \in DOMAIN sent_jobs THEN sent_jobs[company] ELSE <<>>

LastReturned(trail) == trail[Len(trail)][3]

\* the list with the ids it does not hold appended in the order they came
WithAppended(list, ids) ==
    LET Fresh(k) == k \notin Range(list)
    IN  list \o SelectSeq(ids, Fresh)

\* C12: when check_all_boards has processed a company, sent_jobs[company]
\* holds at most SentKeep keys (200 in the source): the last ones of the list
\* it held before followed by the ids appended in the step, in that order
C12_BoundedFifo ==
    [][(pc = "collect" /\ pc' \in {"collect", "notify"}
        /\ <<job_boards[idx], "check_all_boards">> \notin errors') =>
          LET company == job_boards[idx]
              all == WithAppended(SentBefore(company), LastReturned(calls'[company]))
              kept == sent_jobs'[company]
          IN  /\ Len(kept) <= SentKeep
              /\ Len(kept) = IF Len(all) <= SentKeep THEN Len(all) ELSE SentKeep
              /\ kept = SubSeq(all, Len(all) - Len(kept) + 1, Len(all))]_vars

\* C12 witness: the slice dropped the oldest key of the list: the first key
\* loaded for the first company is gone and the key after it leads the list
C12_OldestEvicted ==
    /\ pc = "collect" /\ idx = 2
    /\ job_boards[1] \in DOMAIN loaded.sent_jobs
    /\ Len(loaded.sent_jobs[job_boards[1]]) = SentKeep
    /\ Len(sent_jobs[job_boards[1]]) = SentKeep
    /\ loaded.sent_jobs[job_boards[1]][1] \notin Range(sent_jobs[job_boards[1]])
    /\ loaded.sent_jobs[job_boards[1]][2] = sent_jobs[job_boards[1]][1]

\* C13: a load without a token, and a load that raises, returns an empty
\* document; the run then goes through collection, notification and save to
\* its end; without a token the save writes nothing to the gist
C13_DegradedLoad ==
    /\ (pc # "idle" /\ loaded.answers[1] \in {"none", "error"}) =>
           loaded.job_history = EmptyDoc
    /\ (pc # "idle" /\ loaded.answers[2] \in {"none", "error"}) =>
           loaded.sent_jobs = EmptyDoc
    /\ (pc # "idle" /\ ~gist_token) => loaded.answers = <<"none", "none">>
    /\ pc \in {"notify", "save", "done"} =>
           \A c \in Companies : calls[c] # <<>> \/ <<c, "check_all_boards">> \in errors
    /\ pc \in {"save", "done"} => mail \in {"skipped", "delivered", "failed"}
    /\ ~gist_token => (~saved /\ gist_history = EmptyDoc /\ gist_sent = EmptyDoc)

\* C13 witness: the gist holds the postings of an earlier run, the load of
\* job_history raised, and the run found the postings again, sent its email
\* and saved
C13_RanAfterLoadError ==
    /\ pc = "done" /\ saved /\ mail = "delivered"
    /\ prev.saved /\ prev.novel # {}
    /\ loaded.answers[1] = "error" /\ loaded.job_history = EmptyDoc

TooShort(text) == text = <<>> \/ CharLen(text) < 5

HasJunkPhrase(text) == \E i \in 1..Len(text) : text[i] \in JunkWords

SingleGeneric(text) == Len(text) = 1 /\ text[1] \in GenericWords

NoJobKeyword(text) == ~ \E i \in 1..Len(text) : text[i] \in JobKeywordWords

\* C17: is_junk_text rejects a text that is too short, holds a junk phrase,
\* is a single generic word or holds no job keyword, whatever its length, and
\* accepts every other text
C17_RejectsWithoutKeyword ==
    \A e \in probe.junk :
        e.junk = (TooShort(e.text) \/ HasJunkPhrase(e.text) \/ SingleGeneric(e.text)
                  \/ NoJobKeyword(e.text))

C15_SameKeyBothAdapters ==
    \A a \in probe.api : \A b \in probe.ids :
        (a.company = b.company /\ a.title = b.text) => a.job_id = b.job_id

\* C16: a candidate that is_junk_text rejects is never recorded, whichever
\* adapter found it: no key is built for it on a page, and the API leaves no
\* entry of it in job_history
C16_JunkNeverRecorded ==
    /\ \A b \in probe.ids : ~ is_junk_text(b.text)
    /\ \A a \in probe.api : is_junk_text(a.title) => ~ a.recorded

\* C19: a posting is in new_jobs only when job_history holds its key for the
\* company, and neither the email step nor the save step takes an entry out
\* of job_history, whatever became of the email
C19_NewJobsRecorded ==
    [][/\ pc' # "idle" =>
              \A i \in 1..Len(new_jobs') :
                  new_jobs'[i].job_id \in HistoryKeys(job_history', new_jobs'[i].company)
       /\ pc \in {"notify", "save"} =>
              (/\ Entries(job_history) \subseteq Entries(job_history')
               /\ \A c \in DOMAIN job_history :
                      HistoryKeys(job_history, c) \subseteq HistoryKeys(job_history', c))]_vars

\* C19 witness: the email of the run failed, and the entries of its new
\* postings were written to the gist by the save
C19_SavedThoughEmailFailed ==
    /\ pc = "done" /\ mail = "failed" /\ saved /\ new_jobs # <<>>
    /\ \A i \in 1..Len(new_jobs) :
          new_jobs[i].job_id \in HistoryKeys(gist_history, new_jobs[i].company)

\* C20: at the end of a run, every key the run added to sent_jobs belongs to
\* a posting whose title is on a job-title line of the email the run
\* delivered
C20_SentWereRendered ==
    pc = "done" =>
        \A c \in DOMAIN sent_jobs :
            \A k \in SentKeys(sent_jobs, c) \ SentKeys(loaded.sent_jobs, c) :
                /\ mail = "delivered"
                /\ outbox # <<>>
                /\ \E i \in 1..Len(new_jobs) :
                      /\ new_jobs[i].company = c
                      /\ new_jobs[i].job_id = k
                      /\ new_jobs[i].job_title \in Range(outbox[1][c].titles)

\* the step leaves what is stored for a company as it was: the entries of
\* job_history and the keys of sent_jobs
SameStored(company) ==
    /\ HistoryKeys(job_history', company) = HistoryKeys(job_history, company)
    /\ company \in DOMAIN job_history =>
          (company \in DOMAIN job_history' /\ job_history'[company] = job_history[company])
    /\ SentKeys(sent_jobs', company) = SentKeys(sent_jobs, company)

\* the adapters handed no job of the company to check_all_boards: they
\* failed, or they found none
FailedOrEmpty(company) == calls'[company][Len(calls'[company])][2] = 0

\* C21: a step of check_all_boards for a company that failed or yielded no
\* job leaves job_history and the keys of sent_jobs of that company as they
\* were, and every step leaves those of the other companies as they were
C21_FailureKeepsStored ==
    [][(pc = "collect" /\ pc' \in {"collect", "notify"}) =>
          /\ FailedOrEmpty(job_boards[idx]) => SameStored(job_boards[idx])
          /\ \A other \in Companies \ {job_boards[idx]} : SameStored(other)]_vars

\* C22: the jobs one call of scrape_job_board returns come from one selector,
\* over all the pages the call visited
C22_OneSelectorPerCall ==
    \A c \in Companies : \A i \in 1..Len(calls[c]) :
        calls[c][i][1] = "scrape_job_board" => Cardinality(calls[c][i][4]) <= 1

\* the calls of the run stayed within the bounds of their loops: at most
\* max_pages iterations of the loop over pages, one only when the page had no
\* element and no next control, and at most DeptLimit departments queried
LoopsBounded ==
    \A c \in Companies : \A i \in 1..Len(calls[c]) :
        /\ calls[c][i][5] <= max_pages
        /\ calls[c][i][6] <= DeptLimit
        /\ (calls[c][i][1] = "scrape_job_board" /\ web[c].nav /\ web[c].page.len = 0) =>
               calls[c][i][5] = 1

FirstSightings(company) ==
    {i \in 1..Len(new_jobs) :
        /\ new_jobs[i].company = company
        /\ \A j \in 1..(i - 1) :
              ~ (new_jobs[j].company = company
                 /\ new_jobs[j].job_title = new_jobs[i].job_title)}

\* C24: the email lists no title twice for a company, and of the items of
\* new_jobs with the same company and title it lists the first: the titles
\* of a company are those of its first sightings, in their order in new_jobs
C24_FirstOfEachTitle ==
    outbox # <<>> =>
        \A c \in Companies :
            LET titles == outbox[1][c].titles
            IN  /\ outbox[1][c].count = Cardinality(FirstSightings(c))
                /\ \A a \in 1..Len(titles) : \A b \in 1..Len(titles) :
                       a # b => titles[a] # titles[b]
                /\ \A a \in 1..Len(titles) :
                       \E i \in FirstSightings(c) :
                          /\ new_jobs[i].job_title = titles[a]
                          /\ Cardinality({j \in FirstSightings(c) : j < i}) = a - 1

\* C24 witness: an email was delivered for a new_jobs that has two items with
\* the same company and title
C24_DuplicateDropped ==
    /\ mail = "delivered" /\ outbox # <<>>
    /\ \E i \in 1..Len(new_jobs) : \E j \in 1..Len(new_jobs) :
          /\ i < j
          /\ new_jobs[i].company = new_jobs[j].company
          /\ new_jobs[i].job_title = new_jobs[j].job_title

\* C25: an entry leaves the stored history, or the history in memory, only
\* by the retention policy: an entry that a step removes or changes was first
\* seen seven days ago or earlier; the steps of a run after the load remove
\* and change none
C25_EvictionOnly ==
    [][/\ \A e \in Entries(gist_history) \ Entries(gist_history') :
              e[3].first_seen <= now' - RetentionDays
       /\ (pc # "idle" /\ pc' # "idle") =>
              Entries(job_history) \subseteq Entries(job_history')]_vars

\* C26: a run whose save did not write the gist logged an error or a
\* warning of the save, and a run logged the success message of the save
\* only when the gist was written
C26_FailedSaveLogged ==
    pc = "done" =>
        /\ ~ saved => (\/ <<"error", "save_job_history">> \in errors
                       \/ <<"warning", "save_job_history">> \in errors)
        /\ <<"info", "save_job_history">> \in errors => saved

\* C27: when check_all_boards has processed a company, sent_jobs holds for it
\* the key of every posting the step appended to new_jobs
C27_NewJobsAreSent ==
    [][(pc = "collect" /\ pc' \in {"collect", "notify"}) =>
          \A i \in (Len(new_jobs) + 1)..Len(new_jobs') :
              new_jobs'[i].job_id \in SentKeys(sent_jobs', job_boards[idx])]_vars

\* the ids the adapters returned in the calls of a trail
ReturnedIds(trail) == UNION {Range(trail[i][3]) : i \in 1..Len(trail)}

\* the keys of the postings the step appended to new_jobs
AppendedKeys == {new_jobs'[i].job_id : i \in (Len(new_jobs) + 1)..Len(new_jobs')}

\* C28: a posting found for a company is appended to new_jobs exactly when
\* sent_jobs does not hold its key for the company, whatever job_history
\* holds: every key the step appended was absent from sent_jobs, and every
\* key the adapters returned that was absent from sent_jobs was appended
C28_NewIffNotSent ==
    [][(pc = "collect" /\ pc' \in {"collect", "notify"}) =>
          /\ AppendedKeys \cap SentKeys(sent_jobs, job_boards[idx]) = {}
          /\ ReturnedIds(calls'[job_boards[idx]]) \ SentKeys(sent_jobs, job_boards[idx])
                 \subseteq AppendedKeys]_vars

\* C29: a run whose new_jobs is empty after check_all_boards does not go to
\* the SMTP server and hands it no message, and goes on to the save, which
\* ends the run
C29_NoEmailWithoutNews ==
    [][/\ (pc = "notify" /\ new_jobs = <<>>) =>
              (attempts' = 0 /\ outbox' = <<>> /\ mail' = "skipped" /\ pc' = "save")
       /\ (pc = "save" /\ new_jobs = <<>>) =>
              (attempts' = 0 /\ outbox' = <<>> /\ pc' = "done")]_vars

\* C29 witness: a run ended that found postings, all of them in sent_jobs
\* already: no email, and the save wrote the gist
C29_QuietRunSaved ==
    /\ pc = "done" /\ new_jobs = <<>> /\ mail = "skipped" /\ attempts = 0 /\ saved
    /\ \E c \in Companies : calls[c] # <<>> /\ calls[c][Len(calls[c])][2] > 0

====
